---- MODULE Spec2Model ----
(***************************************************************************)
(* Model of the refresh engine of ph-plotter (src/main.py): the CSV reader *)
(* read_csv_data and the Dash callback update_graph, together with the     *)
(* environment they poll: the data file, the dropdown selection and the    *)
(* graph's relayoutData.                                                   *)
(*                                                                         *)
(* Python values are represented as follows.  A dict is a function whose   *)
(* domain is a set of strings; {} is the empty function.  None, where a    *)
(* dict or a figure may also stand, is the record None.  A selection that  *)
(* is None is the string NoSelection.  NaN and NaT are the integer NaN.    *)
(* True, as a relayout value, is 1 (as Python's True == 1).                *)
(***************************************************************************)
EXTENDS Integers, Sequences, FiniteSets, TLC

VARIABLES
    file_exists,         \* os.path.exists(FILE_PATH)
    file_mtime,          \* os.path.getmtime(FILE_PATH)
    file_data,           \* what pd.read_csv would make of the file's content
    selected_ph_type,    \* value of 'ph-type-dropdown'
    relay_data,          \* 'ph-plot'.relayoutData
    current_figure,      \* 'ph-plot'.figure
    view_state,          \* dcc.Store 'view-state'
    last_data_update,    \* dcc.Store 'last-data-update'
    status,              \* 'last-update-time'.children
    outcome,             \* branch taken by the latest update_graph call
    prev_outcome,        \* branch taken by the call before that one
    read_called,         \* whether that call invoked read_csv_data
    classified,          \* whether that call ran the outlier classification
    probe,               \* input and result of a stand-alone call of a pure function
    last_modified_time,  \* global last_modified_time (line 114)
    dropdown_options,    \* global dropdown_options (line 115)
    dropdown_value,      \* global dropdown_value (line 116)
    dropdown,            \* per session: the options and value of 'ph-type-dropdown'
    own,                 \* per session: the three globals as that session alone
                         \* would have left them
    dd_call              \* the latest update_dropdown call: session, current_value,
                         \* whether it read the file with success, value returned

env_vars   == <<file_exists, file_mtime, file_data, selected_ph_type, relay_data>>
store_vars == <<current_figure, view_state, last_data_update, status>>
hist_vars  == <<outcome, prev_outcome, read_called, classified>>
dd_vars    == <<last_modified_time, dropdown_options, dropdown_value, dropdown, own,
                dd_call>>
vars       == <<env_vars, store_vars, hist_vars, probe, dd_vars>>

(***************************************************************************)
(* Bounds                                                                  *)
(***************************************************************************)
MaxMtime == 2    \* the file is rewritten at most MaxMtime - 1 times
MaxRows  == 6    \* rows of a column classified on its own

(***************************************************************************)
(* Python values                                                           *)
(***************************************************************************)
None        == [none |-> TRUE]
NoSelection == "None"
NaN         == 0 - 1000
EmptyDict   == <<>>

Truthy(v) == v # None /\ v # EmptyDict

(***************************************************************************)
(* Datasets: the DataFrame pd.read_csv returns.  cols is the set of column *)
(* names, nat the time columns on which pd.to_datetime yields only NaT,    *)
(* vals the raw pH readings, one per row.  parse_ok = FALSE stands for a   *)
(* file on which pd.read_csv raises.                                       *)
(***************************************************************************)
ColOrder == <<"pc_time", "ph_time", "samp_num", "pH_free", "ph_total", "ph_raw", "temp">>
Columns  == {ColOrder[i] : i \in 1..Len(ColOrder)}

\* names c with 'ph' in c.lower() or 'pH' in c
ContainsPh(c)   == c \in {"ph_time", "pH_free", "ph_total", "ph_raw"}
\* names c with 'time' in c.lower()
ContainsTime(c) == c \in {"pc_time", "ph_time"}

\* df.columns as a list (the columns in file order)
ColumnList(cols) == SelectSeq(ColOrder, LAMBDA c : c \in cols)

NumRows(d) == Len(d.vals)

\* df[c] after read_csv_data's conversions
ColData(d, c) ==
    [i \in 1..NumRows(d) |->
        CASE c = "samp_num" -> i
          [] c \in {"pc_time", "ph_time"} -> IF c \in d.nat THEN NaN ELSE 100 + i
          [] c = "pH_free"  -> d.vals[i]
          [] c = "ph_total" -> IF d.vals[i] = NaN THEN NaN ELSE d.vals[i] + 1
          [] c = "ph_raw"   -> IF d.vals[i] = NaN THEN NaN ELSE d.vals[i] + 2
          [] OTHER          -> 20]

(***************************************************************************)
(* read_csv_data                                                           *)
(***************************************************************************)
\* lines 25-39: the time column chosen by name
NamedTimeColumn(d) ==
    IF "pc_time" \in d.cols THEN "pc_time"
    ELSE IF "ph_time" \in d.cols THEN "ph_time"
    ELSE "samp_num"

\* lines 42-44: a time column holding only NaT is demoted
ResolveTimeColumn(d) ==
    LET time_col == NamedTimeColumn(d)
    IN  IF ContainsTime(time_col) /\ time_col \in d.nat
        THEN IF "samp_num" \in d.cols THEN "samp_num" ELSE ColumnList(d.cols)[1]
        ELSE time_col

\* lines 47-55
ResolvePhColumns(d) ==
    LET known == SelectSeq(<<"pH_free", "ph_total">>, LAMBDA c : c \in d.cols)
    IN  IF known # <<>> THEN known
        ELSE SelectSeq(ColumnList(d.cols),
                       LAMBDA c : ContainsPh(c) /\ ~ContainsTime(c))

\* The pair (df, metadata), or None for (None, None).
read_csv_data(exists, d) ==
    IF ~exists THEN None
    ELSE IF ~d.parse_ok THEN None
    ELSE IF ResolvePhColumns(d) = <<>> THEN None
    ELSE [df       |-> d,
          time_col |-> ResolveTimeColumn(d),
          ph_cols  |-> ResolvePhColumns(d)]

(***************************************************************************)
(* Outlier classification (update_graph, lines 239-254).  Quantiles are    *)
(* pandas' default (linear interpolation over the non-null values); they   *)
(* are kept as 4*q and the fence as 8*bound so that integers suffice.      *)
(***************************************************************************)
NonNull(col) == SelectSeq(col, LAMBDA v : v # NaN)

Sorted(col) == SortSeq(col, LAMBDA a, b : a < b)

\* 4 * Series.quantile(k/4) of a non-empty sorted sequence s
Quantile4(s, k) ==
    LET pos  == k * (Len(s) - 1)
        lo   == (pos \div 4) + 1
        frac == pos % 4
    IN  IF frac = 0 THEN 4 * s[lo]
        ELSE 4 * s[lo] + frac * (s[lo + 1] - s[lo])

\* 8 * lower_bound and 8 * upper_bound; comparisons with NaN bounds are False
InFence(col, v) ==
    LET s    == Sorted(NonNull(col))
        q1   == Quantile4(s, 1)
        q3   == Quantile4(s, 3)
        iqr  == q3 - q1
    IN  /\ v # NaN
        /\ s # <<>>
        /\ 8 * v >= 2 * q1 - 3 * iqr
        /\ 8 * v <= 2 * q3 + 3 * iqr

\* lines 246-250: the set of row numbers for which normal_mask is True
normal_mask(col) ==
    LET inside == {i \in 1..Len(col) : InFence(col, col[i])}
    IN  IF Cardinality(inside) < 5 THEN 1..Len(col) ELSE inside

\* df[mask][c]: the rows of a column selected by a mask, in row order
RECURSIVE Pick(_, _, _)
Pick(col, mask, i) ==
    IF i > Len(col) THEN <<>>
    ELSE (IF i \in mask THEN <<col[i]>> ELSE <<>>) \o Pick(col, mask, i + 1)

Masked(col, mask) == Pick(col, mask, 1)

(***************************************************************************)
(* Figures.  A figure is its title, its traces and the axes of its layout; *)
(* an axis that the layout does not hold is None, an axis without a        *)
(* 'range' key has range NoRange.                                          *)
(***************************************************************************)
NoRange == <<>>

Axis(title, tickformat) == [range |-> NoRange, title |-> title, tickformat |-> tickformat]

Trace(name, x, y, mode, secondary_y) ==
    [name |-> name, x |-> x, y |-> y, mode |-> mode, secondary_y |-> secondary_y]

\* lines 180-181
WaitingFigure ==
    [title |-> <<"Waiting for data file...">>, data |-> <<>>,
     xaxis |-> None, yaxis |-> None, yaxis2 |-> None]

\* lines 227-228
ErrorFigure ==
    [title |-> <<"Error reading data file">>, data |-> <<>>,
     xaxis |-> None, yaxis |-> None, yaxis2 |-> None]

\* lines 234, 339-343
NotFoundFigure(sel) ==
    [title |-> <<"Error: Selected column not found", sel>>, data |-> <<>>,
     xaxis |-> Axis("Time", FALSE), yaxis |-> Axis("pH", FALSE),
     yaxis2 |-> Axis("", FALSE)]

(***************************************************************************)
(* View state (update_graph, lines 193-203)                                *)
(***************************************************************************)
X0 == "xaxis.range[0]"
X1 == "xaxis.range[1]"
Y0 == "yaxis.range[0]"
Y1 == "yaxis.range[1]"

\* any(vk in key for vk in view_keys)
IsViewKey(key) == key \in {X0, X1, Y0, Y1, "xaxis.autorange", "yaxis.autorange", "autosize"}

CurrentView(relay, stored) ==
    IF Truthy(relay)
    THEN [k \in {key \in DOMAIN relay : IsViewKey(key)} |-> relay[k]]
    ELSE IF Truthy(stored) THEN stored
    ELSE EmptyDict

HasXRange(view) == X0 \in DOMAIN view /\ X1 \in DOMAIN view
HasYRange(view) == Y0 \in DOMAIN view /\ Y1 \in DOMAIN view

\* what an operation yields when it raises
Raised == [raised |-> TRUE]

\* ApplyViewToCurrent dropping the range of an axis the view has no pair for
ApplyViewToCurrentResets(fig, view) ==
    IF ~Truthy(view) THEN fig
    ELSE IF fig.xaxis = None \/ fig.yaxis = None THEN Raised
    ELSE [fig EXCEPT
            !.xaxis.range = IF HasXRange(view) THEN <<view[X0], view[X1]>> ELSE NoRange,
            !.yaxis.range = IF HasYRange(view) THEN <<view[Y0], view[Y1]>> ELSE NoRange]

\* lines 208-218: the view patched into the figure the browser holds
ApplyViewToCurrent(fig, view) ==
    IF ~Truthy(view) THEN fig
    ELSE IF (HasXRange(view) /\ fig.xaxis = None) \/ (HasYRange(view) /\ fig.yaxis = None)
    THEN Raised
    ELSE LET fx == IF HasXRange(view)
                   THEN [fig EXCEPT !.xaxis.range = <<view[X0], view[X1]>>]
                   ELSE fig
         IN  IF HasYRange(view)
             THEN [fx EXCEPT !.yaxis.range = <<view[Y0], view[Y1]>>]
             ELSE fx

\* ApplyViewToNew without lines 313-317
ApplyViewToNewXOnly(fig, view) ==
    IF ~Truthy(view) THEN fig
    ELSE IF HasXRange(view)
         THEN [fig EXCEPT !.xaxis.range = <<view[X0], view[X1]>>]
         ELSE fig

\* lines 307-317: the view applied to a freshly built figure
ApplyViewToNew(fig, view) ==
    IF ~Truthy(view) THEN fig
    ELSE LET fx == IF HasXRange(view)
                   THEN [fig EXCEPT !.xaxis.range = <<view[X0], view[X1]>>]
                   ELSE fig
         IN  IF HasYRange(view)
             THEN [fx EXCEPT !.yaxis.range = <<view[Y0], view[Y1]>>]
             ELSE fx

(***************************************************************************)
(* update_graph                                                            *)
(***************************************************************************)
\* line 176, with the clock's reading left out
update_time == "Last updated"

\* need_data_update with line 191 never reached
need_data_update_always(ldu, mtime, sel) == TRUE

\* need_data_update with the comparison of ph_type left out of line 190
need_data_update_mtime_only(ldu, mtime, sel) ==
    IF ldu # None
    THEN ~(ldu.mtime = mtime)
    ELSE TRUE

\* need_data_update with the comparison of mtime left out of line 190
need_data_update_metric_only(ldu, mtime, sel) ==
    IF ldu # None
    THEN ~(ldu.ph_type = sel)
    ELSE TRUE

\* lines 188-191
need_data_update(ldu, mtime, sel) ==
    IF ldu # None
    THEN ~(ldu.mtime = mtime /\ ldu.ph_type = sel)
    ELSE TRUE

\* line 297: the time column is of a datetime dtype
IsDatetime(d, c) == c = "pc_time" \/ (c = "ph_time" /\ "pc_time" \notin d.cols)

\* lines 257-266
MainTrace(d, time_col, sel) ==
    LET mask == normal_mask(ColData(d, sel))
    IN  Trace(sel, Masked(ColData(d, time_col), mask),
              Masked(ColData(d, sel), mask), "lines+markers", FALSE)

\* lines 269-282
OutlierTraces(d, time_col, sel) ==
    LET out == (1..NumRows(d)) \ normal_mask(ColData(d, sel))
    IN  IF out = {} THEN <<>>
        ELSE <<Trace("Outliers", Masked(ColData(d, time_col), out),
                     Masked(ColData(d, sel), out), "markers", FALSE)>>

\* lines 285-294
SampleTrace(d, time_col) ==
    Trace("Sample Number", ColData(d, time_col),
          IF "samp_num" \in d.cols THEN ColData(d, "samp_num")
          ELSE [i \in 1..NumRows(d) |-> i - 1],
          "lines", TRUE)

\* lines 234-337: the chart of the selected column; df[time_col] raises
\* KeyError when the resolved time column is no column of the dataset
ChartFigure(d, time_col, sel, view) ==
    IF time_col \notin d.cols THEN Raised
    ELSE ApplyViewToNew(
            [title  |-> <<sel, "vs", time_col>>,
             data   |-> <<MainTrace(d, time_col, sel)>> \o OutlierTraces(d, time_col, sel)
                            \o <<SampleTrace(d, time_col)>>,
             xaxis  |-> Axis(time_col, IsDatetime(d, time_col)),
             yaxis  |-> Axis(sel, FALSE),
             yaxis2 |-> Axis("Sample Number", FALSE)],
            view)

\* What one call returns: the four outputs, with the branch taken and the
\* calls made.  A call that raises returns nothing.
Return(fig, st, ldu, view, branch, read, cls) ==
    [figure |-> fig, status |-> st, last_data_update |-> ldu, view_state |-> view,
     outcome |-> branch, read_called |-> read, classified |-> cls]

\* lines 345-349
new_data_update(mtime, sel) == [mtime |-> mtime, ph_type |-> sel]

\* MissingSource returning the stored fingerprint instead of None
MissingSourceKeepsFingerprint ==
    Return(WaitingFigure, "Waiting for file to be created...", last_data_update, None,
           "waiting", FALSE, FALSE)

\* lines 179-182
MissingSource ==
    Return(WaitingFigure, "Waiting for file to be created...", None, None,
           "waiting", FALSE, FALSE)

\* lines 206-221
Reuse(fig, ldu, view) ==
    IF ApplyViewToCurrent(fig, view) = Raised
    THEN [outcome |-> "exception", read_called |-> FALSE, classified |-> FALSE]
    ELSE Return(ApplyViewToCurrent(fig, view), "Last updated (no changes)", ldu, view,
                "reuse", FALSE, FALSE)

\* ReadError returning the current fingerprint instead of None
ReadErrorStoresFingerprint(view) ==
    Return(ErrorFigure, "Error reading data",
           new_data_update(file_mtime, selected_ph_type), view, "read_error", TRUE, FALSE)

\* lines 226-229
ReadError(view) ==
    Return(ErrorFigure, "Error reading data", None, view, "read_error", TRUE, FALSE)

\* lines 231-351
Rebuild(r, mtime, sel, view) ==
    IF sel \in r.df.cols
    THEN IF ChartFigure(r.df, r.time_col, sel, view) = Raised
         THEN [outcome |-> "exception", read_called |-> TRUE, classified |-> TRUE]
         ELSE Return(ChartFigure(r.df, r.time_col, sel, view), update_time,
                     new_data_update(mtime, sel), view, "rebuilt", TRUE, TRUE)
    ELSE Return(NotFoundFigure(sel), update_time,
                new_data_update(mtime, sel), view, "not_found", TRUE, FALSE)

\* lines 174-351
UpdateGraph(exists, mtime, d, sel, fig, relay, stored, ldu) ==
    LET current_view == CurrentView(relay, stored)
        r            == read_csv_data(exists, d)
    IN  IF ~exists THEN MissingSource
        ELSE IF ~need_data_update(ldu, mtime, sel) /\ Truthy(fig)
        THEN Reuse(fig, ldu, current_view)
        ELSE IF r = None THEN ReadError(current_view)
        ELSE Rebuild(r, mtime, sel, current_view)

\* One firing of the callback.  When the call raises, Dash updates none of
\* its outputs.
update_graph ==
    LET ret == UpdateGraph(file_exists, file_mtime, file_data, selected_ph_type,
                           current_figure, relay_data, view_state, last_data_update)
    IN  /\ outcome'     = ret.outcome
        /\ prev_outcome' = outcome
        /\ read_called' = ret.read_called
        /\ classified'  = ret.classified
        /\ IF ret.outcome = "exception"
           THEN UNCHANGED store_vars
           ELSE /\ current_figure'   = ret.figure
                /\ status'           = ret.status
                /\ last_data_update' = ret.last_data_update
                /\ view_state'       = ret.view_state
        /\ UNCHANGED <<env_vars, probe, dd_vars>>

(***************************************************************************)
(* Environment: the process that writes the file, and the user             *)
(***************************************************************************)
Dataset(cols, nat, vals, ok) == [cols |-> cols, nat |-> nat, vals |-> vals, parse_ok |-> ok]

\* six readings without an outlier, and six with one
PlainVals   == <<70, 71, 72, 73, 74, 75>>
OutlierVals == <<70, 71, 72, 73, 74, 99>>

Datasets ==
    {Dataset({"pc_time", "samp_num", "pH_free", "ph_total"}, {}, OutlierVals, TRUE),
     Dataset({"pH_free"}, {}, PlainVals, TRUE),
     Dataset({"samp_num", "temp"}, {}, PlainVals, TRUE),
     Dataset({"ph_time", "pH_free"}, {"ph_time"}, PlainVals, TRUE),
     Dataset({}, {}, <<>>, FALSE)}

Selections == {NoSelection, "pH_free", "ph_total"}

Payload(keys, lo) == [k \in keys |-> IF k \in {X1, Y1} THEN lo + 1 ELSE lo]

\* relayout events: a zoom on both axes, a zoom on x, and one that carries
\* no view key
Payloads ==
    {Payload({X0, X1, Y0, Y1}, 3), Payload({X0, X1}, 5),
     Payload({"dragmode"}, 1)}

WriteFile(d) ==
    /\ file_mtime < MaxMtime
    /\ file_exists' = TRUE
    /\ file_mtime'  = file_mtime + 1
    /\ file_data'   = d
    /\ UNCHANGED <<selected_ph_type, relay_data, store_vars, hist_vars, probe, dd_vars>>

\* the file is moved away, and later moved back with its mtime
RemoveFile ==
    /\ file_exists
    /\ file_exists' = FALSE
    /\ UNCHANGED <<file_mtime, file_data, selected_ph_type, relay_data,
                   store_vars, hist_vars, probe, dd_vars>>

RestoreFile ==
    /\ ~file_exists
    /\ file_exists' = TRUE
    /\ UNCHANGED <<file_mtime, file_data, selected_ph_type, relay_data,
                   store_vars, hist_vars, probe, dd_vars>>

SelectMetric(sel) ==
    /\ sel # selected_ph_type
    /\ selected_ph_type' = sel
    /\ UNCHANGED <<file_exists, file_mtime, file_data, relay_data,
                   store_vars, hist_vars, probe, dd_vars>>

Relayout(p) ==
    /\ p # relay_data
    /\ relay_data' = p
    /\ UNCHANGED <<file_exists, file_mtime, file_data, selected_ph_type,
                   store_vars, hist_vars, probe, dd_vars>>

\* the sessions (browser tabs) served by the one process
Sessions == {"a", "b"}

\* None as the value of last_modified_time
NoMtime == 0

\* lines 82-83 and 114-116: nothing read yet, empty dropdowns
InitDropdown ==
    /\ last_modified_time = NoMtime
    /\ dropdown_options = <<>>
    /\ dropdown_value = NoSelection
    /\ dropdown = [s \in Sessions |-> [options |-> <<>>, value |-> NoSelection]]
    /\ own = [s \in Sessions |->
                [last_modified_time |-> NoMtime, dropdown_options |-> <<>>,
                 dropdown_value |-> NoSelection]]
    /\ dd_call = None

Init ==
    /\ file_exists \in BOOLEAN
    /\ file_mtime = 1
    /\ file_data \in Datasets
    /\ selected_ph_type = NoSelection
    /\ relay_data = None
    /\ current_figure = None
    /\ view_state = None
    /\ last_data_update = None
    /\ status = ""
    /\ outcome = "none"
    /\ prev_outcome = "none"
    /\ read_called = FALSE
    /\ classified = FALSE
    /\ probe = None
    /\ InitDropdown

Next ==
    \/ update_graph
    \/ \E d \in Datasets : WriteFile(d)
    \/ RemoveFile
    \/ RestoreFile
    \/ \E sel \in Selections : SelectMetric(sel)
    \/ \E p \in Payloads : Relayout(p)

Spec == Init /\ [][Next]_vars

(***************************************************************************)
(* read_csv_data on its own: every column set over Columns, every choice   *)
(* of unparseable time columns, a file that is absent and one that does    *)
(* not parse.                                                              *)
(***************************************************************************)
Pending == [pending |-> TRUE]

AllDatasets ==
    {Dataset({}, {}, <<>>, FALSE)}
    \cup UNION {{Dataset(cols, nat, PlainVals, TRUE) :
                    nat \in SUBSET (cols \cap {"pc_time", "ph_time"})} :
                cols \in SUBSET Columns}

InitRead ==
    /\ probe \in [exists : BOOLEAN, df : AllDatasets, ret : {Pending}]
    /\ file_exists = FALSE
    /\ file_mtime = 1
    /\ file_data = Dataset({}, {}, <<>>, FALSE)
    /\ selected_ph_type = NoSelection
    /\ relay_data = None
    /\ current_figure = None
    /\ view_state = None
    /\ last_data_update = None
    /\ status = ""
    /\ outcome = "none"
    /\ prev_outcome = "none"
    /\ read_called = FALSE
    /\ classified = FALSE
    /\ InitDropdown

ReadProbe ==
    /\ probe.ret = Pending
    /\ probe' = [probe EXCEPT !.ret = read_csv_data(probe.exists, probe.df)]
    /\ UNCHANGED <<env_vars, store_vars, hist_vars, dd_vars>>

NextRead == ReadProbe

SpecRead == InitRead /\ [][NextRead]_vars

(***************************************************************************)
(* update_dropdown, called for the sessions of one process in any order    *)
(***************************************************************************)
\* line 139
Options(ph_cols) == [i \in 1..Len(ph_cols) |-> [label |-> ph_cols[i], value |-> ph_cols[i]]]

OptionValues(options) == {options[i].value : i \in 1..Len(options)}

Elements(seq) == {seq[i] : i \in 1..Len(seq)}

\* new_value with 'not in ph_cols' left out of line 142
new_value_keeps_current(current_value, ph_cols) ==
    IF current_value = NoSelection
    THEN IF "ph_total" \in Elements(ph_cols) THEN "ph_total"
         ELSE IF "pH_free" \in Elements(ph_cols) THEN "pH_free"
         ELSE ph_cols[1]
    ELSE current_value

\* lines 142-151
new_value(current_value, ph_cols) ==
    IF current_value = NoSelection \/ current_value \notin Elements(ph_cols)
    THEN IF "ph_total" \in Elements(ph_cols) THEN "ph_total"
         ELSE IF "pH_free" \in Elements(ph_cols) THEN "pH_free"
         ELSE ph_cols[1]
    ELSE current_value

\* the three globals
Globals == [last_modified_time |-> last_modified_time,
            dropdown_options   |-> dropdown_options,
            dropdown_value     |-> dropdown_value]

\* lines 134-137: the call reads the file, with success
ReadsWithSuccess(g, exists, mtime, d) ==
    /\ exists
    /\ g.last_modified_time # mtime \/ g.dropdown_options = <<>>
    /\ read_csv_data(exists, d) # None

\* lines 125-159: the globals the call leaves, and the pair it returns
UpdateDropdown(g, exists, mtime, d, current_value) ==
    IF ~exists
    THEN [globals |-> g, options |-> <<>>, value |-> NoSelection]
    ELSE IF ReadsWithSuccess(g, exists, mtime, d)
    THEN LET ph_cols == read_csv_data(exists, d).ph_cols
         IN  [globals |-> [last_modified_time |-> mtime,
                           dropdown_options   |-> Options(ph_cols),
                           dropdown_value     |-> new_value(current_value, ph_cols)],
              options |-> Options(ph_cols),
              value   |-> new_value(current_value, ph_cols)]
    ELSE [globals |-> g,
          options |-> g.dropdown_options,
          value   |-> IF g.dropdown_value # NoSelection THEN g.dropdown_value
                      ELSE current_value]

\* One firing of the callback for session s.
update_dropdown(s) ==
    LET ret == UpdateDropdown(Globals, file_exists, file_mtime, file_data,
                              dropdown[s].value)
        alone == UpdateDropdown(own[s], file_exists, file_mtime, file_data,
                                dropdown[s].value)
    IN  /\ last_modified_time' = ret.globals.last_modified_time
        /\ dropdown_options'   = ret.globals.dropdown_options
        /\ dropdown_value'     = ret.globals.dropdown_value
        /\ dropdown' = [dropdown EXCEPT ![s] = [options |-> ret.options,
                                                 value   |-> ret.value]]
        /\ own' = [own EXCEPT ![s] = alone.globals]
        /\ dd_call' = [session |-> s, current_value |-> dropdown[s].value,
                        read |-> ReadsWithSuccess(Globals, file_exists, file_mtime, file_data),
                        value |-> ret.value]
        /\ UNCHANGED <<env_vars, store_vars, hist_vars, probe>>

\* the user of session s picks one of the listed options, or clears the
\* dropdown
ChooseOption(s, v) ==
    /\ v \in OptionValues(dropdown[s].options) \cup {NoSelection}
    /\ v # dropdown[s].value
    /\ dropdown' = [dropdown EXCEPT ![s].value = v]
    /\ UNCHANGED <<env_vars, store_vars, hist_vars, probe, last_modified_time,
                   dropdown_options, dropdown_value, own, dd_call>>

\* files with both known pH columns, with one, with another pH column only,
\* and a file that does not parse
DropdownDatasets ==
    {Dataset({"pc_time", "samp_num", "pH_free", "ph_total"}, {}, PlainVals, TRUE),
     Dataset({"samp_num", "pH_free"}, {}, PlainVals, TRUE),
     Dataset({"samp_num", "ph_raw", "temp"}, {}, PlainVals, TRUE),
     Dataset({}, {}, <<>>, FALSE)}

InitSessions ==
    /\ file_exists \in BOOLEAN
    /\ file_mtime = 1
    /\ file_data \in DropdownDatasets
    /\ selected_ph_type = NoSelection
    /\ relay_data = None
    /\ current_figure = None
    /\ view_state = None
    /\ last_data_update = None
    /\ status = ""
    /\ outcome = "none"
    /\ prev_outcome = "none"
    /\ read_called = FALSE
    /\ classified = FALSE
    /\ probe = None
    /\ InitDropdown

NextSessions ==
    \/ \E s \in Sessions : update_dropdown(s)
    \/ \E s \in Sessions, v \in Columns \cup {NoSelection} : ChooseOption(s, v)
    \/ \E d \in DropdownDatasets : WriteFile(d)
    \/ RemoveFile
    \/ RestoreFile

SpecSessions == InitSessions /\ [][NextSessions]_vars

(***************************************************************************)
(* The outlier classification on its own: every column of at most MaxRows  *)
(* readings, nulls among them.                                             *)
(***************************************************************************)
\* lines 242-243: 8 * lower_bound and 8 * upper_bound of a column that has
\* a non-null value
FenceLow8(col) ==
    LET s == Sorted(NonNull(col))
    IN  2 * Quantile4(s, 1) - 3 * (Quantile4(s, 3) - Quantile4(s, 1))

FenceHigh8(col) ==
    LET s == Sorted(NonNull(col))
    IN  2 * Quantile4(s, 3) + 3 * (Quantile4(s, 3) - Quantile4(s, 1))

\* lines 246-254 and 260, 273: the y values of df_normal and of df_outliers
classify(col) ==
    [normal   |-> Masked(col, normal_mask(col)),
     outliers |-> Masked(col, (1..Len(col)) \ normal_mask(col))]

ReadingValues == {70, 71, 99, NaN}

AllColumnData == UNION {[1..n -> ReadingValues] : n \in 0..MaxRows}

\* every variable but probe, as the process starts
Idle ==
    /\ file_exists = FALSE
    /\ file_mtime = 1
    /\ file_data = Dataset({}, {}, <<>>, FALSE)
    /\ selected_ph_type = NoSelection
    /\ relay_data = None
    /\ current_figure = None
    /\ view_state = None
    /\ last_data_update = None
    /\ status = ""
    /\ outcome = "none"
    /\ prev_outcome = "none"
    /\ read_called = FALSE
    /\ classified = FALSE
    /\ InitDropdown

InitClassify ==
    /\ probe \in [col : AllColumnData, ret : {Pending}]
    /\ Idle

ClassifyProbe ==
    /\ probe.ret = Pending
    /\ probe' = [probe EXCEPT !.ret = classify(probe.col)]
    /\ UNCHANGED <<env_vars, store_vars, hist_vars, dd_vars>>

NextClassify == ClassifyProbe

SpecClassify == InitClassify /\ [][NextClassify]_vars

(***************************************************************************)
(* Properties                                                              *)
(***************************************************************************)
\* the fingerprint a call computes from the file and the selection
Fingerprint == [mtime |-> file_mtime, ph_type |-> selected_ph_type]

\* a figure with its axis ranges left out
Unframed(fig) == [title |-> fig.title, data |-> fig.data]

\* the ranges of a figure's primary axes
PrimaryRanges(fig) ==
    IF fig.xaxis = None \/ fig.yaxis = None THEN <<NoRange, NoRange>>
    ELSE <<fig.xaxis.range, fig.yaxis.range>>

\* the ranges a view with both range pairs asks for
ViewRanges(view) == <<<<view[X0], view[X1]>>, <<view[Y0], view[Y1]>>>>

\* C1: a call that finds the file, a stored figure and a stored fingerprint
\* equal to the current (mtime, selection) reads nothing and classifies
\* nothing; it returns the stored figure (series and title untouched), the
\* stored fingerprint and a status ending in "(no changes)".
CacheReuse ==
    [][(/\ update_graph
        /\ file_exists
        /\ current_figure # None
        /\ last_data_update # None
        /\ last_data_update = Fingerprint)
       => (/\ outcome' = "reuse"
           /\ ~read_called'
           /\ ~classified'
           /\ Unframed(current_figure') = Unframed(current_figure)
           /\ last_data_update' = last_data_update
           /\ status' = "Last updated (no changes)")]_vars

CacheReuseWitness ==
    /\ outcome = "reuse"
    /\ prev_outcome = "rebuilt"
    /\ ~read_called
    /\ ~classified
    /\ status = "Last updated (no changes)"

\* C2: a call that reads the file and does not find the selected metric
\* among its columns does not store the current fingerprint.
UnknownMetricLeavesCache ==
    [][(update_graph /\ outcome' = "not_found")
       => last_data_update' # Fingerprint]_vars

\* C3: a call whose read fails returns the error placeholder and no
\* fingerprint, and the next call that finds the file reads it again,
\* whatever the mtime and the selection.
ReadFailureRetry ==
    /\ [](outcome = "read_error"
            => /\ last_data_update = None
               /\ current_figure = ErrorFigure
               /\ status = "Error reading data")
    /\ [][(update_graph /\ outcome = "read_error" /\ file_exists)
          => (read_called' /\ outcome' \notin {"reuse", "waiting"})]_vars

ReadFailureRetryWitness ==
    /\ prev_outcome = "read_error"
    /\ outcome = "read_error"
    /\ read_called
    /\ last_data_update = None

\* C4: a call that does not find the file returns the waiting placeholder
\* and status and no fingerprint, and the next call that finds the file
\* reads it.
MissingSourceClearsCache ==
    /\ [][(update_graph /\ ~file_exists) => outcome' = "waiting"]_vars
    /\ [](outcome = "waiting"
            => /\ last_data_update = None
               /\ current_figure = WaitingFigure
               /\ status = "Waiting for file to be created...")
    /\ [][(update_graph /\ outcome = "waiting" /\ file_exists)
          => (read_called' /\ outcome' # "reuse")]_vars

MissingSourceWitness ==
    /\ prev_outcome = "waiting"
    /\ outcome = "rebuilt"
    /\ read_called
    /\ last_data_update = Fingerprint

\* C5, as stated: whenever the current view holds both range pairs, the
\* figure a call returns past the missing-source check has those ranges on
\* its primary axes.
ViewAppliedOnEveryPath ==
    [][(/\ update_graph
        /\ outcome' \in {"reuse", "rebuilt", "not_found", "read_error"}
        /\ HasXRange(CurrentView(relay_data, view_state))
        /\ HasYRange(CurrentView(relay_data, view_state)))
       => PrimaryRanges(current_figure') = ViewRanges(CurrentView(relay_data, view_state))]_vars

\* C5, amended: whenever the current view holds both range pairs, the
\* figure returned by the reuse path, and the one returned by a rebuild
\* that reads the file and finds the selected metric among its columns,
\* has those ranges on its primary axes.
ViewPreservation ==
    [][(/\ update_graph
        /\ outcome' \in {"reuse", "rebuilt"}
        /\ HasXRange(CurrentView(relay_data, view_state))
        /\ HasYRange(CurrentView(relay_data, view_state)))
       => PrimaryRanges(current_figure') = ViewRanges(CurrentView(relay_data, view_state))]_vars

ViewPreservationWitness ==
    /\ outcome = "rebuilt"
    /\ HasXRange(view_state)
    /\ HasYRange(view_state)
    /\ PrimaryRanges(current_figure) = ViewRanges(view_state)
    /\ Len(current_figure.data) = 3

\* C6: a call that finds the file and a non-empty relayoutData without any
\* view key writes the ViewState it found stored; a stored zoom survives.
CaptureRetainsStoredView ==
    [][(/\ update_graph
        /\ file_exists
        /\ Truthy(relay_data)
        /\ \A key \in DOMAIN relay_data : ~IsViewKey(key)
        /\ HasXRange(view_state))
       => view_state' = view_state]_vars

\* C7: a call made while the user has not interacted since the stored
\* ViewState was captured leaves a stored, non-empty ViewState as it is.
ViewStatePersists ==
    [][(/\ update_graph
        /\ Truthy(view_state)
        /\ CurrentView(relay_data, view_state) = view_state)
       => view_state' = view_state]_vars

\* C8: when the stored figure is a chart, the stored fingerprint has the
\* file's mtime and another metric than the selected one, the call reads the
\* file and stores the fingerprint of the new metric; when that metric is a
\* column, the first series of the figure is named after it and holds the
\* normal rows of that column.
MetricSwitchForcesRebuild ==
    [][(/\ update_graph
        /\ file_exists
        /\ current_figure # None
        /\ last_data_update # None
        /\ current_figure.data # <<>>
        /\ last_data_update.mtime = file_mtime
        /\ last_data_update.ph_type # selected_ph_type)
       => (/\ read_called'
           /\ outcome' \in {"rebuilt", "not_found"}
           /\ last_data_update' = Fingerprint
           /\ selected_ph_type \in file_data.cols
                => /\ outcome' = "rebuilt"
                   /\ current_figure'.data[1].name = selected_ph_type
                   /\ current_figure'.data[1].y =
                        Masked(ColData(file_data, selected_ph_type),
                               normal_mask(ColData(file_data, selected_ph_type))))]_vars

\* the file was never rewritten, so two rebuilds in a row differ in the metric
MetricSwitchWitness ==
    /\ file_mtime = 1
    /\ prev_outcome = "rebuilt"
    /\ outcome = "rebuilt"
    /\ current_figure.data[1].name = "ph_total"
    /\ last_data_update.ph_type = "ph_total"

\* C9: no call of update_graph ends in an unhandled exception.
NoFailureIsFatal == outcome # "exception"

\* the time column the claim C10 names
ClaimedTimeColumn(d) ==
    IF "pc_time" \in d.cols THEN "pc_time"
    ELSE IF "ph_time" \in d.cols THEN "ph_time"
    ELSE IF "samp_num" \in d.cols THEN "samp_num"
    ELSE ColumnList(d.cols)[1]

\* C10: every dataset read_csv_data returns has its resolved time column
\* among its columns and, when no time column is all NaT, that column is
\* pc_time, else ph_time, else samp_num, else the first column.
TimeColumnResolution ==
    (probe # None /\ probe.ret # Pending /\ probe.ret # None)
        => /\ probe.ret.time_col \in probe.df.cols
           /\ probe.df.nat = {} => probe.ret.time_col = ClaimedTimeColumn(probe.df)

\* the classification of probe.col has been computed
Classified == probe # None /\ probe.ret # Pending

\* C11: the normal and the outlier series together hold as many rows as the
\* column has non-null values, and neither holds a null.
ClassificationPartition ==
    Classified
        => /\ Len(probe.ret.normal) + Len(probe.ret.outliers) = Len(NonNull(probe.col))
           /\ NonNull(probe.ret.normal) = probe.ret.normal
           /\ NonNull(probe.ret.outliers) = probe.ret.outliers

\* rows with a value inside the fence, and rows with a value outside it
RowsInside(col) ==
    {i \in 1..Len(col) : /\ col[i] # NaN
                         /\ 8 * col[i] >= FenceLow8(col)
                         /\ 8 * col[i] <= FenceHigh8(col)}

RowsOutside(col) ==
    {i \in 1..Len(col) : /\ col[i] # NaN
                         /\ (8 * col[i] < FenceLow8(col) \/ 8 * col[i] > FenceHigh8(col))}

\* C12: with fewer than 5 rows inside the fence every row is normal and no
\* row is an outlier; otherwise the outliers are exactly the rows whose
\* value lies outside the fence.
DegenerateFenceGuard ==
    Classified
        => IF Cardinality(RowsInside(probe.col)) < 5
           THEN probe.ret.normal = probe.col /\ probe.ret.outliers = <<>>
           ELSE probe.ret.outliers = Masked(probe.col, RowsOutside(probe.col))

\* C12 on columns without a null
DegenerateFenceGuardNonNull ==
    (Classified /\ NonNull(probe.col) = probe.col)
        => IF Cardinality(RowsInside(probe.col)) < 5
           THEN probe.ret.normal = probe.col /\ probe.ret.outliers = <<>>
           ELSE probe.ret.outliers = Masked(probe.col, RowsOutside(probe.col))

\* C14: a column without nulls whose quartiles coincide has no outlier.
ZeroIqrTolerance ==
    (/\ Classified
     /\ probe.col # <<>>
     /\ NonNull(probe.col) = probe.col
     /\ Quantile4(Sorted(probe.col), 1) = Quantile4(Sorted(probe.col), 3))
        => probe.ret.outliers = <<>>

\* a figure with the ranges of its primary axes left out
StripRanges(fig) ==
    [fig EXCEPT !.xaxis = IF fig.xaxis = None THEN None
                          ELSE [fig.xaxis EXCEPT !.range = NoRange],
                !.yaxis = IF fig.yaxis = None THEN None
                          ELSE [fig.yaxis EXCEPT !.range = NoRange]]

\* what the call would return with no fingerprint stored: the rebuild path
RebuildNow ==
    UpdateGraph(file_exists, file_mtime, file_data, selected_ph_type,
                current_figure, relay_data, view_state, None)

\* C15: the figure a call returns on the reuse path has the series a rebuild
\* at that call would produce from the file and the selected metric, and
\* differs from that rebuild's figure in the primary axes' ranges at most.
CacheCoherence ==
    [][(update_graph /\ outcome' = "reuse")
       => (/\ RebuildNow.outcome \in {"rebuilt", "not_found"}
           /\ current_figure'.data = RebuildNow.figure.data
           /\ StripRanges(current_figure') = StripRanges(RebuildNow.figure))]_vars

CacheCoherenceWitness ==
    /\ outcome = "reuse"
    /\ file_exists
    /\ last_data_update = Fingerprint
    /\ Len(current_figure.data) = 3
    /\ current_figure.data[1].name = selected_ph_type
    /\ current_figure.data[2].name = "Outliers"

\* C16: on the reuse path the returned figure differs from the stored one in
\* the ranges of the primary x and y axes at most, the fingerprint is the
\* stored one, and an axis for which the view holds no range pair is as it
\* was.
ApplyIsPurePatch ==
    [][(update_graph /\ outcome' = "reuse")
       => (/\ current_figure'.data = current_figure.data
           /\ StripRanges(current_figure') = StripRanges(current_figure)
           /\ last_data_update' = last_data_update
           /\ ~HasXRange(CurrentView(relay_data, view_state))
                => current_figure'.xaxis = current_figure.xaxis
           /\ ~HasYRange(CurrentView(relay_data, view_state))
                => current_figure'.yaxis = current_figure.yaxis)]_vars

\* the x range was patched on reuse, the y range is the one of the rebuild
ApplyIsPurePatchWitness ==
    /\ outcome = "reuse"
    /\ HasXRange(view_state)
    /\ ~HasYRange(view_state)
    /\ current_figure.xaxis.range = <<view_state[X0], view_state[X1]>>
    /\ current_figure.yaxis.range # NoRange
    /\ current_figure.data # <<>>

\* what the call of session s would return had no other session ever called
ReturnedAlone(s) ==
    UpdateDropdown(own[s], file_exists, file_mtime, file_data, dropdown[s].value)

\* C13: the pair update_dropdown returns to a session is the pair it would
\* return had the other session never called: it depends on the file and on
\* that session's own selections only.
SessionIsolation ==
    [][\A s \in Sessions :
        update_dropdown(s)
            => dropdown'[s] = [options |-> ReturnedAlone(s).options,
                               value   |-> ReturnedAlone(s).value]]_vars

\* C17: a call made while the file is as the last successful read found it,
\* by a session whose selection is one of the resolved pH columns and whose
\* globals no other session has touched, returns that selection.
TickKeepsValidSelection ==
    [][\A s \in Sessions :
        (/\ update_dropdown(s)
         /\ file_exists
         /\ last_modified_time = file_mtime
         /\ own[s] = Globals
         /\ dropdown[s].value \in OptionValues(dropdown_options))
            => dropdown'[s].value = dropdown[s].value]_vars

\* the default the claim C18 names
ClaimedDefault(resolved) ==
    IF "ph_total" \in Elements(resolved) THEN "ph_total"
    ELSE IF "pH_free" \in Elements(resolved) THEN "pH_free"
    ELSE resolved[1]

\* C18: the value a call returns is None or the value of one of the options
\* it returns; a call that reads the file with success for a session whose
\* selection is None or no resolved column returns ph_total if resolved,
\* else pH_free, else the first resolved column.
SelectionIsListed ==
    [][\A s \in Sessions :
        update_dropdown(s)
            => /\ \/ dropdown'[s].value = NoSelection
                  \/ dropdown'[s].value \in OptionValues(dropdown'[s].options)
               /\ (/\ ReadsWithSuccess(Globals, file_exists, file_mtime, file_data)
                   /\ dropdown[s].value \notin Elements(ResolvePhColumns(file_data)))
                    => dropdown'[s].value = ClaimedDefault(ResolvePhColumns(file_data))]_vars

\* a selection of ph_total met a file without that column and became pH_free
SelectionIsListedWitness ==
    /\ dd_call # None
    /\ dd_call.read
    /\ dd_call.current_value = "ph_total"
    /\ dd_call.value = "pH_free"
    /\ dropdown[dd_call.session].options = Options(<<"pH_free">>)

====
